---------------------------- MODULE Spec2Model ----------------------------
(***************************************************************************)
(* TweetRepliesFetchService (src/components/tweet_replies_fetch_service.py)*)
(*                                                                         *)
(* One service instance with its instance-level list self.replies, the     *)
(* three public methods get_tweet_replies, get_replies_with_metadata and   *)
(* save_replies_to_file, the upstream HTTP response as an input of each    *)
(* call, and the files written by save_replies_to_file.                    *)
(*                                                                         *)
(*   Spec      calls made one at a time: get_tweet_replies and             *)
(*             get_replies_with_metadata, the caller keeping the last      *)
(*             Fetch Result it was handed                                  *)
(*   SpecFile  calls made one at a time, save_replies_to_file included,    *)
(*             with the files on disk                                      *)
(*   SpecConc  two threads inside get_tweet_replies on the same instance,  *)
(*             interleaved statement by statement                          *)
(***************************************************************************)
EXTENDS Integers, Sequences, FiniteSets, TLC

VARIABLES
    replies,        \* self.replies: the one list object the instance owns
    jsonErrIsReqExc,\* whether response.json()'s decode error is a RequestException
    last,           \* the most recent call: its arguments, response and outcome
    held,           \* the Fetch Result the caller last got from get_replies_with_metadata
    fs,             \* the files on disk: filename -> serialized contents
    pc,             \* SpecConc: where each thread is inside get_tweet_replies
    tresp,          \* SpecConc: the response each thread's request got
    tidx,           \* SpecConc: how many entries of its response a thread has mapped
    tret,           \* SpecConc: what each thread's call returned
    overlapped      \* SpecConc: whether another thread touched self.replies during the call

vars == <<replies, jsonErrIsReqExc, last, held, fs, pc, tresp, tidx, tret, overlapped>>

(***************************************************************************)
(* Bounds                                                                  *)
(***************************************************************************)
\* longest "tweets" array the upstream returns
MaxTweets == 2

(***************************************************************************)
(* Python values                                                           *)
(***************************************************************************)
\* dict.get(key) of an optional string field: None when the key is absent
PyNone == [t |-> "None", v |-> ""]
PyStr(s) == [t |-> "str", v |-> s]

\* a JSON object is a function from the keys it has to their values
EmptyObj == [k \in {} |-> ""]
JObject(o) == [type |-> "object", obj |-> o]
JNull == [type |-> "null", obj |-> EmptyObj]

Has(d, k) == k \in DOMAIN d
\* d.get(k) for a string-valued key
Get(d, k) == IF Has(d, k) THEN PyStr(d[k]) ELSE PyNone
\* d.get(k, default)
GetOr(d, k, default) == IF Has(d, k) THEN d[k] ELSE default

(***************************************************************************)
(* Upstream reply objects (elements of the "tweets" array)                 *)
(***************************************************************************)
ReplyMinimal ==
    ("id" :> "r1") @@ ("text" :> "hi")
ReplyFull ==
    ("id" :> "r2") @@ ("text" :> "yo") @@ ("author_id" :> "u7")
    @@ ("author" :> JObject(("username" :> "bob")))
    @@ ("created_at" :> "2025-03-21")
    @@ ("likes_count" :> 5) @@ ("replies_count" :> 1)
ReplyNoId ==
    ("text" :> "hi") @@ ("likes_count" :> 5)
ReplyNoText ==
    ("id" :> "r1") @@ ("author_id" :> "u7")
ReplyNullAuthor ==
    ("id" :> "r1") @@ ("text" :> "yo") @@ ("author" :> JNull)

WellFormedReplies == {ReplyMinimal, ReplyFull}
Replies == WellFormedReplies \cup {ReplyNoId, ReplyNoText, ReplyNullAuthor}

SeqsUpTo(S, n) == UNION {[1..k -> S] : k \in 0..n}

(***************************************************************************)
(* Upstream responses                                                      *)
(***************************************************************************)
\* requests.request raised: no response at all
NetFail(exc) ==
    [kind |-> "netfail", exc |-> exc, type |-> "", contains |-> FALSE,
     isList |-> FALSE, tweets |-> <<>>]
\* a response whose body is not JSON
BadJson ==
    [kind |-> "badjson", exc |-> "", type |-> "", contains |-> FALSE,
     isList |-> FALSE, tweets |-> <<>>]
\* a parsed body: its top-level JSON type, whether `"tweets" in body` is true,
\* whether body["tweets"] is a list, and that list
Json(type, contains, isList, tweets) ==
    [kind |-> "json", exc |-> "", type |-> type, contains |-> contains,
     isList |-> isList, tweets |-> tweets]
TweetsBody(tweets) == Json("object", TRUE, TRUE, tweets)

NetFails == {NetFail("ConnectionError"), NetFail("Timeout")}
OddBodies ==
    {Json("object", FALSE, FALSE, <<>>),   \* {"error": ...}
     Json("object", TRUE, FALSE, <<>>),    \* {"tweets": null} or {"tweets": "none"}
     Json("null", FALSE, FALSE, <<>>),     \* null
     Json("number", FALSE, FALSE, <<>>),   \* 42
     Json("string", FALSE, FALSE, <<>>),   \* "rate limited"
     Json("string", TRUE, FALSE, <<>>),    \* "no tweets"
     Json("array", FALSE, FALSE, <<>>),    \* []
     Json("array", TRUE, FALSE, <<>>)}     \* ["tweets"]
ResponsesOver(R) ==
    NetFails \cup {BadJson} \cup OddBodies
    \cup {TweetsBody(t) : t \in SeqsUpTo(R, MaxTweets)}
Responses == ResponsesOver(Replies)

TweetIds == {"123", "456"}
\* the id a plain fetch is asked for: it reaches the request and the result's
\* "tweet_id" only, the response being an input of its own
FetchTweetIds == {"123"}

(***************************************************************************)
(* get_tweet_replies                                                       *)
(***************************************************************************)
\* self.replies.clear()
MutClearKeeps(buf) == buf
ClearReplies(buf) == <<>>

\* the exceptions `except requests.RequestException` catches. ConnectionError and
\* Timeout are RequestExceptions; the error of response.json() is one in the
\* requests releases that raise requests.JSONDecodeError, and a plain ValueError
\* in the older ones.
MutCatchesConnectionOnly(exc, jsonIsReq) == exc = "ConnectionError"
MutCatchesOnlyNetwork(exc, jsonIsReq) == exc \in {"ConnectionError", "Timeout"}
IsRequestException(exc, jsonIsReq) ==
    \/ exc \in {"ConnectionError", "Timeout"}
    \/ exc = "JSONDecodeError" /\ jsonIsReq

Raised(exc) ==
    [ok |-> FALSE, exc |-> exc,
     val |-> [reply_id |-> "", author_id |-> PyNone, author_username |-> PyNone,
              text |-> "", created_at |-> PyNone,
              metrics |-> [likes |-> 0, retweets |-> 0, replies |-> 0]]]
Mapped(info) == [ok |-> TRUE, exc |-> "", val |-> info]

\* the reply_info dict literal; its items are evaluated top to bottom
MapReply(reply) ==
    IF ~Has(reply, "id") THEN Raised("KeyError")
    ELSE IF Has(reply, "author") /\ reply["author"].type # "object"
         THEN Raised("AttributeError")      \* None has no attribute get
    ELSE IF ~Has(reply, "text") THEN Raised("KeyError")
    ELSE Mapped([reply_id |-> reply["id"],
                 author_id |-> Get(reply, "author_id"),
                 author_username |-> Get(GetOr(reply, "author", JObject(EmptyObj)).obj,
                                         "username"),
                 text |-> reply["text"],
                 created_at |-> Get(reply, "created_at"),
                 metrics |-> [likes |-> GetOr(reply, "likes_count", 0),
                              retweets |-> GetOr(reply, "retweets_count", 0),
                              replies |-> GetOr(reply, "replies_count", 0)]])

\* for reply in replies_data["tweets"]: ... self.replies.append(reply_info)
RECURSIVE MutLoopSkipsMalformed(_, _)
MutLoopSkipsMalformed(buf, tweets) ==
    IF tweets = <<>> THEN [exc |-> "", buf |-> buf]
    ELSE LET m == MapReply(Head(tweets))
         IN  MutLoopSkipsMalformed(IF m.ok THEN Append(buf, m.val) ELSE buf, Tail(tweets))
RECURSIVE AppendLoop(_, _)
AppendLoop(buf, tweets) ==
    IF tweets = <<>> THEN [exc |-> "", buf |-> buf]
    ELSE LET m == MapReply(Head(tweets))
         IN  IF ~m.ok THEN [exc |-> m.exc, buf |-> buf]
             ELSE AppendLoop(Append(buf, m.val), Tail(tweets))

\* `"tweets" in replies_data and isinstance(replies_data["tweets"], list)`:
\* "" and the verdict, or the exception the test itself raises
TweetsTest(resp) ==
    IF resp.type \in {"null", "number"}
    THEN [exc |-> "TypeError", isList |-> FALSE]    \* argument is not iterable
    ELSE IF ~resp.contains THEN [exc |-> "", isList |-> FALSE]
    ELSE IF resp.type \in {"string", "array"}
    THEN [exc |-> "TypeError", isList |-> FALSE]    \* indices must be integers
    ELSE [exc |-> "", isList |-> resp.isList]

\* the body of the try block, run on the cleared list
TryBlock(buf, resp) ==
    IF resp.kind = "netfail" THEN [exc |-> resp.exc, buf |-> buf]
    ELSE IF resp.kind = "badjson" THEN [exc |-> "JSONDecodeError", buf |-> buf]
    ELSE LET t == TweetsTest(resp)
         IN  IF t.exc # "" THEN [exc |-> t.exc, buf |-> buf]
             ELSE IF t.isList THEN AppendLoop(buf, resp.tweets)
             ELSE [exc |-> "", buf |-> buf]

\* the whole of get_tweet_replies on a list holding buf: the outcome, the
\* returned sequence, whether that is self.replies itself (alias) or a fresh
\* list, and what self.replies holds afterwards
GetTweetRepliesResult(buf, resp, jsonIsReq) ==
    LET r == TryBlock(ClearReplies(buf), resp)
    IN  IF r.exc = ""
        THEN [outcome |-> "returned", exc |-> "", ret |-> r.buf, alias |-> TRUE,
              buf |-> r.buf]
        ELSE IF IsRequestException(r.exc, jsonIsReq)
        THEN [outcome |-> "returned", exc |-> "", ret |-> <<>>, alias |-> FALSE,
              buf |-> r.buf]
        ELSE [outcome |-> "raised", exc |-> r.exc, ret |-> <<>>, alias |-> FALSE,
              buf |-> r.buf]

(***************************************************************************)
(* get_replies_with_metadata                                               *)
(***************************************************************************)
Timestamps == {"2025-03-21T10:15:00"}

NoResult ==
    [some |-> FALSE, tweet_id |-> "", total_replies_fetched |-> 0,
     fetch_timestamp |-> "", alias |-> FALSE]
\* the dict the caller holds: "replies" is the list object get_tweet_replies
\* returned, so it is self.replies itself when alias is set
FetchResult(tweet_id, g, now) ==
    [some |-> TRUE, tweet_id |-> tweet_id, total_replies_fetched |-> Len(g.ret),
     fetch_timestamp |-> now, alias |-> g.alias]
\* what result["replies"] reads as, given what self.replies holds now
RepliesOf(result, buf) == IF result.alias THEN buf ELSE <<>>

NoCall ==
    [op |-> "none", tweet_id |-> "", filename |-> "", resp |-> BadJson,
     outcome |-> "", exc |-> "", ret |-> <<>>, total |-> 0, path |-> <<>>]
Call(op, tweet_id, filename, resp, g, path) ==
    [op |-> op, tweet_id |-> tweet_id, filename |-> filename, resp |-> resp,
     outcome |-> g.outcome, exc |-> g.exc, ret |-> g.ret, total |-> Len(g.ret),
     path |-> path]

Threads == {1, 2}
ConcIdle ==
    /\ pc = [t \in Threads |-> "idle"]
    /\ UNCHANGED <<pc, tresp, tidx, tret, overlapped>>

GetStep(tweet_id, resp) ==
    LET g == GetTweetRepliesResult(replies, resp, jsonErrIsReqExc)
    IN  /\ replies' = g.buf
        /\ last' = Call("get", tweet_id, "", resp, g, <<>>)
        /\ UNCHANGED <<jsonErrIsReqExc, held, fs>>
        /\ ConcIdle

MetaStep(tweet_id, resp, now) ==
    LET g == GetTweetRepliesResult(replies, resp, jsonErrIsReqExc)
    IN  /\ replies' = g.buf
        /\ last' = Call("meta", tweet_id, "", resp, g, <<>>)
        /\ held' = IF g.outcome = "returned" THEN FetchResult(tweet_id, g, now)
                   ELSE held
        /\ UNCHANGED <<jsonErrIsReqExc, fs>>
        /\ ConcIdle

GetTweetReplies ==
    \E tweet_id \in FetchTweetIds, resp \in Responses : GetStep(tweet_id, resp)

GetRepliesWithMetadata ==
    \E tweet_id \in FetchTweetIds, resp \in Responses, now \in Timestamps :
        MetaStep(tweet_id, resp, now)

NoFiles == [f \in {} |-> <<>>]

Init ==
    /\ replies = <<>>
    /\ jsonErrIsReqExc \in BOOLEAN
    /\ last = NoCall
    /\ held = NoResult
    /\ fs = NoFiles
    /\ pc = [t \in Threads |-> "idle"]
    /\ tresp = [t \in Threads |-> BadJson]
    /\ tidx = [t \in Threads |-> 0]
    /\ tret = [t \in Threads |-> <<>>]
    /\ overlapped = [t \in Threads |-> FALSE]

Next == GetTweetReplies \/ GetRepliesWithMetadata

Spec == Init /\ [][Next]_vars

(***************************************************************************)
(* save_replies_to_file                                                    *)
(***************************************************************************)
\* datetime.now().strftime('%Y%m%d_%H%M%S')
Strftime(now) == IF now = "2025-03-21T10:15:00" THEN "20250321_101500" ELSE "00000000_000000"

\* f"replies_to_{tweet_id}_{stamp}.json", as the pieces the f-string joins
DefaultFilename(tweet_id, now) ==
    <<"replies_to_", tweet_id, "_", Strftime(now), ".json">>
\* the filename argument: "" stands for None
Filenames == {"", "out.json"}
PathOf(tweet_id, filename, now) ==
    IF filename = "" THEN DefaultFilename(tweet_id, now) ELSE <<filename>>

\* JSON text of the leaves: a literal's kind and its characters
Digits == <<"0", "1", "2", "3", "4", "5", "6", "7", "8", "9">>
StrTok(s) == [lit |-> "string", text |-> s]
NumTok(n) == [lit |-> "number", text |-> Digits[n + 1]]
NullTok == [lit |-> "null", text |-> "null"]
MutOptTokNoneAsString(v) == IF v.t = "None" THEN StrTok("None") ELSE StrTok(v.v)
OptTok(v) == IF v.t = "None" THEN NullTok ELSE StrTok(v.v)

\* json.dump: the members of each dict in insertion order
DumpReply(r) ==
    << <<"reply_id", StrTok(r.reply_id)>>,
       <<"author_id", OptTok(r.author_id)>>,
       <<"author_username", OptTok(r.author_username)>>,
       <<"text", StrTok(r.text)>>,
       <<"created_at", OptTok(r.created_at)>>,
       <<"metrics", << <<"likes", NumTok(r.metrics.likes)>>,
                       <<"retweets", NumTok(r.metrics.retweets)>>,
                       <<"replies", NumTok(r.metrics.replies)>> >> >> >>
JsonDump(d) ==
    << <<"tweet_id", StrTok(d.tweet_id)>>,
       <<"total_replies_fetched", NumTok(d.total_replies_fetched)>>,
       <<"fetch_timestamp", StrTok(d.fetch_timestamp)>>,
       <<"replies", [i \in 1..Len(d.replies) |-> DumpReply(d.replies[i])]>> >>

\* json.load of such a text
Keys(members) == {members[i][1] : i \in 1..Len(members)}
Member(members, key) == members[CHOOSE i \in 1..Len(members) : members[i][1] = key][2]
TokStr(tok) == tok.text
TokInt(tok) == (CHOOSE n \in 1..Len(Digits) : Digits[n] = tok.text) - 1
TokOpt(tok) == IF tok.lit = "null" THEN PyNone ELSE PyStr(tok.text)
LoadReply(m) ==
    [reply_id |-> TokStr(Member(m, "reply_id")),
     author_id |-> TokOpt(Member(m, "author_id")),
     author_username |-> TokOpt(Member(m, "author_username")),
     text |-> TokStr(Member(m, "text")),
     created_at |-> TokOpt(Member(m, "created_at")),
     metrics |-> [likes |-> TokInt(Member(Member(m, "metrics"), "likes")),
                  retweets |-> TokInt(Member(Member(m, "metrics"), "retweets")),
                  replies |-> TokInt(Member(Member(m, "metrics"), "replies"))]]
JsonLoad(text) ==
    [tweet_id |-> TokStr(Member(text, "tweet_id")),
     total_replies_fetched |-> TokInt(Member(text, "total_replies_fetched")),
     fetch_timestamp |-> TokStr(Member(text, "fetch_timestamp")),
     replies |-> [i \in 1..Len(Member(text, "replies")) |->
                     LoadReply(Member(text, "replies")[i])]]

\* the dict get_replies_with_metadata returns, as it reads at the return
MetadataDict(tweet_id, g, now) ==
    [tweet_id |-> tweet_id, total_replies_fetched |-> Len(g.ret),
     fetch_timestamp |-> now, replies |-> g.ret]

\* open(filename, "w") and json.dump: the file is created or replaced
WriteFile(files, path, text) ==
    [f \in DOMAIN files \cup {path} |-> IF f = path THEN text ELSE files[f]]

\* the files after save_replies_to_file: open() is reached only when
\* get_replies_with_metadata returned
MutOpensBeforeFetch(files, path, tweet_id, g, now) ==
    IF g.outcome = "returned"
    THEN WriteFile(files, path, JsonDump(MetadataDict(tweet_id, g, now)))
    ELSE WriteFile(files, path, <<>>)
FilesAfterSave(files, path, tweet_id, g, now) ==
    IF g.outcome = "returned"
    THEN WriteFile(files, path, JsonDump(MetadataDict(tweet_id, g, now)))
    ELSE files

SaveStep(tweet_id, filename, resp, now) ==
    LET g == GetTweetRepliesResult(replies, resp, jsonErrIsReqExc)
        path == PathOf(tweet_id, filename, now)
    IN  /\ replies' = g.buf
        /\ fs' = FilesAfterSave(fs, path, tweet_id, g, now)
        /\ last' = Call("save", tweet_id, filename, resp, g, path)
        /\ UNCHANGED <<jsonErrIsReqExc, held>>
        /\ ConcIdle

\* the responses the runs with files draw from: a thread of replies cut at any
\* length, whole or with one of its entries lacking its id
ThreadReply(i) == IF i % 2 = 1 THEN ReplyMinimal ELSE ReplyFull
Thread(k) == [i \in 1..k |-> ThreadReply(i)]
Damaged(k, j) == [i \in 1..k |-> IF i = j THEN ReplyNoId ELSE ThreadReply(i)]
FileResponses ==
    {NetFail("Timeout"), BadJson, Json("object", FALSE, FALSE, <<>>)}
    \cup {TweetsBody(Thread(k)) : k \in 0..MaxTweets}
    \cup {TweetsBody(Damaged(k, j)) : k \in 1..MaxTweets, j \in 1..MaxTweets}

SaveRepliesToFile ==
    \E tweet_id \in TweetIds, filename \in Filenames, resp \in FileResponses,
       now \in Timestamps :
        SaveStep(tweet_id, filename, resp, now)

GetTweetRepliesBetweenSaves ==
    \E tweet_id \in FetchTweetIds, resp \in FileResponses : GetStep(tweet_id, resp)

NextFile == SaveRepliesToFile \/ GetTweetRepliesBetweenSaves

SpecFile == Init /\ [][NextFile]_vars

(***************************************************************************)
(* Two threads calling get_tweet_replies on one instance                   *)
(***************************************************************************)
\* the threads that are between their clear() and their return
InCall(t) == pc[t] \in {"cleared", "loop"}
\* thread t has just changed self.replies: every other thread inside a call saw it
Touch(t) == [u \in Threads |-> IF u # t /\ InCall(u) THEN TRUE ELSE overlapped[u]]
SeqUnchanged == UNCHANGED <<jsonErrIsReqExc, last, held, fs>>

\* self.replies.clear()
Clear(t) ==
    /\ pc[t] = "idle"
    /\ replies' = ClearReplies(replies)
    /\ pc' = [pc EXCEPT ![t] = "cleared"]
    /\ overlapped' = [Touch(t) EXCEPT ![t] = FALSE]
    /\ tidx' = [tidx EXCEPT ![t] = 0]
    /\ tret' = [tret EXCEPT ![t] = <<>>]
    /\ UNCHANGED tresp
    /\ SeqUnchanged

\* requests.request, response.json() and the test on "tweets"; a failure ends the
\* call here, in the except clause or by propagating
Request(t) ==
    /\ pc[t] = "cleared"
    /\ \E resp \in FileResponses :
        LET exc == IF resp.kind = "netfail" THEN resp.exc
                   ELSE IF resp.kind = "badjson" THEN "JSONDecodeError"
                   ELSE TweetsTest(resp).exc
        IN  /\ tresp' = [tresp EXCEPT ![t] = resp]
            /\ IF exc # ""
               THEN /\ pc' = [pc EXCEPT ![t] =
                                IF IsRequestException(exc, jsonErrIsReqExc)
                                THEN "done" ELSE "raised"]
                    /\ tret' = [tret EXCEPT ![t] = <<>>]
               ELSE /\ pc' = [pc EXCEPT ![t] = "loop"]
                    /\ UNCHANGED tret
    /\ UNCHANGED <<replies, tidx, overlapped>>
    /\ SeqUnchanged

\* one turn of the for loop: build reply_info, self.replies.append(reply_info)
AppendOne(t) ==
    /\ pc[t] = "loop"
    /\ TweetsTest(tresp[t]).isList
    /\ tidx[t] < Len(tresp[t].tweets)
    /\ LET m == MapReply(tresp[t].tweets[tidx[t] + 1])
       IN  IF m.ok
           THEN /\ replies' = Append(replies, m.val)
                /\ tidx' = [tidx EXCEPT ![t] = tidx[t] + 1]
                /\ overlapped' = Touch(t)
                /\ UNCHANGED pc
           ELSE /\ pc' = [pc EXCEPT ![t] = "raised"]
                /\ UNCHANGED <<replies, tidx, overlapped>>
    /\ UNCHANGED <<tresp, tret>>
    /\ SeqUnchanged

\* return self.replies: what the caller reads in the list it is handed
Return(t) ==
    /\ pc[t] = "loop"
    /\ TweetsTest(tresp[t]).isList => tidx[t] = Len(tresp[t].tweets)
    /\ pc' = [pc EXCEPT ![t] = "done"]
    /\ tret' = [tret EXCEPT ![t] = replies]
    /\ UNCHANGED <<replies, tresp, tidx, overlapped>>
    /\ SeqUnchanged

\* the thread is free for its next call
NextCall(t) ==
    /\ pc[t] \in {"done", "raised"}
    /\ pc' = [pc EXCEPT ![t] = "idle"]
    /\ tret' = [tret EXCEPT ![t] = <<>>]
    /\ tidx' = [tidx EXCEPT ![t] = 0]
    /\ tresp' = [tresp EXCEPT ![t] = BadJson]
    /\ overlapped' = [overlapped EXCEPT ![t] = FALSE]
    /\ UNCHANGED replies
    /\ SeqUnchanged

ThreadClear == \E t \in Threads : Clear(t)
ThreadRequest == \E t \in Threads : Request(t)
ThreadAppend == \E t \in Threads : AppendOne(t)
ThreadReturn == \E t \in Threads : Return(t)
ThreadNextCall == \E t \in Threads : NextCall(t)

NextConc ==
    ThreadClear \/ ThreadRequest \/ ThreadAppend \/ ThreadReturn \/ ThreadNextCall

SpecConc == Init /\ [][NextConc]_vars

(***************************************************************************)
(* Properties                                                              *)
(***************************************************************************)
IsTweetsArray(resp) ==
    resp.kind = "json" /\ resp.type = "object" /\ resp.contains /\ resp.isList
\* every entry has the two required fields
AllHaveIdAndText(tweets) ==
    \A i \in 1..Len(tweets) : Has(tweets[i], "id") /\ Has(tweets[i], "text")
\* the in-order mapping of a response's own entries
Expected(resp) ==
    IF IsTweetsArray(resp)
    THEN [i \in 1..Len(resp.tweets) |-> MapReply(resp.tweets[i]).val]
    ELSE <<>>

\* C1 (as claimed): for a "tweets" array of N objects that each have id and text,
\* get_tweet_replies returns N records in the array's order, record i carrying
\* the id and text of object i and a 0 for every metric whose field is absent.
C1_WellFormedArrayIsMapped ==
    (last.op = "get" /\ IsTweetsArray(last.resp) /\ AllHaveIdAndText(last.resp.tweets))
    => /\ last.outcome = "returned"
       /\ Len(last.ret) = Len(last.resp.tweets)
       /\ \A i \in 1..Len(last.ret) :
            LET o == last.resp.tweets[i]
                r == last.ret[i]
            IN  /\ r.reply_id = o["id"]
                /\ r.text = o["text"]
                /\ ~Has(o, "likes_count") => r.metrics.likes = 0
                /\ ~Has(o, "retweets_count") => r.metrics.retweets = 0
                /\ ~Has(o, "replies_count") => r.metrics.replies = 0

\* C2 (as claimed): the Fetch Result the caller holds keeps
\* total_replies_fetched = length(replies) through every later call.
C2_HeldResultCountsItsReplies ==
    held.some => held.total_replies_fetched = Len(RepliesOf(held, replies))

\* C3: a connection error or a timeout of the request makes get_tweet_replies
\* return the empty sequence; nothing propagates.
C3_NetworkFailureReturnsEmpty ==
    (last.op = "get" /\ last.resp.kind = "netfail")
    => (last.outcome = "returned" /\ last.ret = <<>>)
\* a network failure met by a call made after a fetch that produced records
C3_Witness ==
    /\ last.op = "get" /\ last.resp = NetFail("Timeout") /\ last.outcome = "returned"
    /\ held.some /\ held.total_replies_fetched > 0

\* C4: if any entry of the "tweets" array lacks id or text, wherever it stands,
\* get_tweet_replies ends with a propagated failure and returns no sequence.
C4_MalformedEntryPropagates ==
    (last.op = "get" /\ IsTweetsArray(last.resp) /\ ~AllHaveIdAndText(last.resp.tweets))
    => last.outcome = "raised"
\* the entry without id stands second, after one that was mapped and appended
C4_Witness ==
    /\ last.op = "get" /\ last.resp = TweetsBody(<<ReplyFull, ReplyNoId>>)
    /\ last.outcome = "raised" /\ Len(replies) = 1

\* C5 (as claimed): a parsed response with no "tweets" key, or whose "tweets" is
\* not an array, makes get_tweet_replies return the empty sequence without error.
C5_NoTweetsArrayReturnsEmpty ==
    (last.op = "get" /\ last.resp.kind = "json" /\ ~IsTweetsArray(last.resp))
    => (last.outcome = "returned" /\ last.ret = <<>>)

\* C6 (as claimed): a body that is not JSON makes get_tweet_replies propagate a
\* failure; it returns no sequence.
C6_UnparseableBodyPropagates ==
    (last.op = "get" /\ last.resp.kind = "badjson") => last.outcome = "raised"
\* C6 (amended): a body that is not JSON ends the call by what the decode error
\* is: a RequestException is caught and the call returns the empty sequence; any
\* other error propagates.
C6_UnparseableBodyByErrorClass ==
    (last.op = "get" /\ last.resp.kind = "badjson")
    => IF jsonErrIsReqExc
       THEN last.outcome = "returned" /\ last.ret = <<>>
       ELSE last.outcome = "raised" /\ last.exc = "JSONDecodeError"
\* the decode error is a RequestException and the call returned
C6_Witness ==
    /\ last.op = "get" /\ last.resp.kind = "badjson" /\ jsonErrIsReqExc
    /\ last.outcome = "returned"

\* C9: whatever earlier calls did, a get_tweet_replies call that returns
\* normally returns the in-order mapping of its own response and nothing else.
C9_ReturnDependsOnOwnResponse ==
    (last.op = "get" /\ last.outcome = "returned") => last.ret = Expected(last.resp)
\* a call returning records after an earlier fetch left other records behind
C9_Witness ==
    /\ last.op = "get" /\ last.outcome = "returned"
    /\ last.resp = TweetsBody(<<ReplyMinimal>>)
    /\ held.some /\ held.alias /\ held.total_replies_fetched = MaxTweets

\* the filename holds the id as one of the pieces it was joined from
NameContains(path, tweet_id) == \E i \in 1..Len(path) : path[i] = tweet_id
ResultKeys == {"tweet_id", "total_replies_fetched", "fetch_timestamp", "replies"}

\* C7: save_replies_to_file without a filename writes a file named after the
\* tweet id and returns the name; the file parses back to the Fetch Result of
\* the same id and response: same keys, same count, same replies in order.
C7_DefaultFileRoundTrips ==
    (last.op = "save" /\ last.filename = "" /\ last.outcome = "returned")
    => /\ NameContains(last.path, last.tweet_id)
       /\ last.path \in DOMAIN fs
       /\ Keys(fs[last.path]) = ResultKeys
       /\ LET parsed == JsonLoad(fs[last.path])
          IN  /\ parsed.tweet_id = last.tweet_id
              /\ parsed.total_replies_fetched = Len(Expected(last.resp))
              /\ parsed.replies = Expected(last.resp)
\* a default-named file holding a thread of MaxTweets replies
C7_Witness ==
    /\ last.op = "save" /\ last.filename = "" /\ last.outcome = "returned"
    /\ last.tweet_id = "456" /\ last.resp = TweetsBody(Thread(MaxTweets))
    /\ last.path \in DOMAIN fs
    /\ Len(JsonLoad(fs[last.path]).replies) = MaxTweets

\* C10: a save whose fetch propagates a failure leaves every file as it was,
\* the target included; a save whose request fails at the network still writes
\* the target, with a count of 0 and no replies.
C10_FailedFetchLeavesFiles ==
    /\ [][(last'.op = "save" /\ last'.outcome = "raised") => fs' = fs]_vars
    /\ []((last.op = "save" /\ last.resp.kind = "netfail")
           => /\ last.outcome = "returned"
              /\ last.path \in DOMAIN fs
              /\ JsonLoad(fs[last.path]).total_replies_fetched = 0
              /\ JsonLoad(fs[last.path]).replies = <<>>)
\* the target held replies from an earlier save when a later save to it met an
\* entry without id
C10_Witness ==
    /\ last.op = "save" /\ last.outcome = "raised" /\ last.exc = "KeyError"
    /\ last.path \in DOMAIN fs
    /\ Len(JsonLoad(fs[last.path]).replies) > 0

\* C8: a call whose returned list is not the in-order mapping of its own
\* response overlapped another thread's clear or append; calls made one after
\* the other never return such a list. The witness is the corrupted return.
C8_OnlyOverlappedCallsAreCorrupted ==
    \A t \in Threads :
        (pc[t] = "done" /\ tret[t] # Expected(tresp[t])) => overlapped[t]
\* one call returned a list longer than its response: the other call's records
\* are mixed in
C8_Witness ==
    \E t \in Threads :
        /\ pc[t] = "done"
        /\ IsTweetsArray(tresp[t])
        /\ Len(tret[t]) > Len(tresp[t].tweets)
=============================================================================
